---- MODULE Spec2Model ----
(***************************************************************************)
(* Model of hyperliquid_bot/smart_restart.py: one monitoring pass          *)
(* (main + the __main__ exit status) over an environment made of the       *)
(* process table, the activity log, the bot directory and the state file.  *)
(* Time is counted in whole minutes of UTC.                                *)
(***************************************************************************)
EXTENDS Integers, Sequences, FiniteSets, TLC

VARIABLES clock, ticks, procRunning, logFile, runScript, dirFiles, stateFile,
          stateWritable, inv

vars == <<clock, ticks, procRunning, logFile, runScript, dirFiles, stateFile,
          stateWritable, inv>>

(* ---- bounds ---- *)
MaxTicks == 1

(* ---- program constants ---- *)
MAX_IDLE_MINUTES == 15
UTC_OFFSET_MINUTES == 480

(* The patterns of restart_bot, in the order the loop tries them. *)
Patterns == <<"trading_bot.py", "bot.py", "main.py", "hyperliquid*.py">>

(* File names the bot directory may hold, and the glob that matches each. *)
FileNames == {"main.py", "hyperliquid_main.py"}

Glob(pattern, files) ==
    IF pattern = "hyperliquid*.py"
    THEN files \cap {"hyperliquid_main.py"}
    ELSE files \cap {pattern}

(* ---- datetime values: an instant and whether it carries a tzinfo ---- *)
NoneDt == [isNone |-> TRUE, t |-> 0, aware |-> FALSE]

Dt(t, aware) == [isNone |-> FALSE, t |-> t, aware |-> aware]

(* datetime.now(timezone.utc): an aware datetime *)
NowUtc == Dt(clock, TRUE)

(* isoformat() of a datetime *)
IsoFormat(dt) == ToString(dt.t)

(* variant: the subtraction of two datetimes never raises *)
DtSubNeverRaises(a, b) == FALSE

(* datetime.__sub__: aware - naive raises TypeError *)
DtSubRaises(a, b) == a.aware # b.aware

DtSubMinutes(a, b) == a.t - b.t

(* ---- the activity log: last line of trading_bot.log ---- *)
NoLogFile == [exists |-> FALSE, empty |-> TRUE, hasDelim |-> FALSE,
              tsParses |-> FALSE, localTime |-> 0]

LogLine(hasDelim, tsParses, localTime) ==
    [exists |-> TRUE, empty |-> FALSE, hasDelim |-> hasDelim,
     tsParses |-> tsParses, localTime |-> localTime]

EmptyLog == [exists |-> TRUE, empty |-> TRUE, hasDelim |-> FALSE,
             tsParses |-> FALSE, localTime |-> 0]

(* variant: the result of strptime is used without the inner try *)
get_last_log_time_Unchecked(log, tailOK) ==
    IF ~log.exists THEN NoneDt
    ELSE IF ~tailOK THEN NoneDt
    ELSE IF log.empty \/ ~log.hasDelim THEN NoneDt
    ELSE Dt(log.localTime - UTC_OFFSET_MINUTES, FALSE)

(* get_last_log_time; tailOK = FALSE is subprocess.run raising *)
get_last_log_time(log, tailOK) ==
    IF ~log.exists THEN NoneDt
    ELSE IF ~tailOK THEN NoneDt
    ELSE IF log.empty \/ ~log.hasDelim THEN NoneDt
    ELSE IF ~log.tsParses THEN NoneDt
    ELSE Dt(log.localTime - UTC_OFFSET_MINUTES, FALSE)

(* is_process_running; pgrepOK = FALSE is subprocess.run raising *)
is_process_running(running, pgrepOK) ==
    IF pgrepOK THEN running ELSE FALSE

(* ---- the state file ---- *)
AbsentState == [kind |-> "absent", rec |-> <<>>]
CorruptState == [kind |-> "corrupt", rec |-> <<>>]
JsonState(rec) == [kind |-> "json", rec |-> rec]

(* variant: the record is rebuilt from the three known fields *)
MergeState_Replace(rec, status, message, now) ==
    LET keys == {"status", "last_check"}
                 \cup (IF Len(message) > 0 \/ "last_message" \in DOMAIN rec
                       THEN {"last_message"} ELSE {})
    IN [k \in keys |->
          IF k = "status" THEN status
          ELSE IF k = "last_check" THEN IsoFormat(now)
          ELSE IF Len(message) > 0 THEN message
          ELSE rec[k]]

(* variant: last_message is assigned even when the message is empty *)
MergeState_AlwaysMessage(rec, status, message, now) ==
    LET keys == DOMAIN rec \cup {"status", "last_check", "last_message"}
    IN [k \in keys |->
          IF k = "status" THEN status
          ELSE IF k = "last_check" THEN IsoFormat(now)
          ELSE IF k = "last_message" THEN message
          ELSE rec[k]]

(* variant: a new message is appended to the one already recorded *)
MergeState_Append(rec, status, message, now) ==
    LET keys == DOMAIN rec \cup {"status", "last_check"}
                 \cup (IF Len(message) > 0 THEN {"last_message"} ELSE {})
    IN [k \in keys |->
          IF k = "status" THEN status
          ELSE IF k = "last_check" THEN IsoFormat(now)
          ELSE IF k = "last_message" /\ Len(message) > 0
               THEN IF k \in DOMAIN rec THEN rec[k] \o message ELSE message
          ELSE rec[k]]

(* the dict after the three assignments of update_state *)
MergeState(rec, status, message, now) ==
    LET keys == DOMAIN rec \cup {"status", "last_check"}
                 \cup (IF Len(message) > 0 THEN {"last_message"} ELSE {})
    IN [k \in keys |->
          IF k = "status" THEN status
          ELSE IF k = "last_check" THEN IsoFormat(now)
          ELSE IF k = "last_message" /\ Len(message) > 0 THEN message
          ELSE rec[k]]

(* update_state reaches its json.dump: the load and the open both succeed *)
UpdateWrites(file, writable) == file.kind # "corrupt" /\ writable

(* variant: a failure of the load or of the write escapes update_state *)
UpdateRaises_Propagates(file, writable) == ~UpdateWrites(file, writable)

(* lines 61 and 74-75: the try block spans the whole body and the handler
   only prints, so no exception leaves update_state *)
UpdateRaises(file, writable) == FALSE

(* update_state: the file after the call *)
update_state(file, writable, status, message, now) ==
    IF file.kind = "corrupt" THEN file  \* json.load or state[...] raises
    ELSE IF ~writable THEN file         \* open(STATE_FILE, "w") raises
    ELSE JsonState(MergeState(file.rec, status, message, now))

(* ---- restart_bot ---- *)
(* variant: the loop has no break, so the last pattern with a match wins *)
FirstMatch_NoBreak(i, files) ==
    LET hits == {j \in i..Len(Patterns) : Glob(Patterns[j], files) # {}}
        last == CHOOSE j \in hits : \A k \in hits : k <= j
    IN IF hits = {} THEN "none"
       ELSE CHOOSE f \in Glob(Patterns[last], files) : TRUE

RECURSIVE FirstMatch(_, _)
(* the for loop over the patterns: the first pattern with a match, from i on *)
FirstMatch(i, files) ==
    IF i > Len(Patterns) THEN "none"
    ELSE IF Glob(Patterns[i], files) # {}
         THEN CHOOSE f \in Glob(Patterns[i], files) : TRUE
         ELSE FirstMatch(i + 1, files)

(* what restart_bot launches: run.sh when it exists, else the first match *)
LaunchTarget(runExists, files) ==
    IF runExists THEN "run.sh" ELSE FirstMatch(1, files)

(* variant: the missing-script branch falls through to the final return *)
restart_bot_FallsThrough(runExists, files, pkillRes, spawnOK) ==
    LET target == LaunchTarget(runExists, files) IN
    IF pkillRes = "raise"
    THEN [calls |-> 1, success |-> FALSE,
          message |-> <<"Error restarting bot: ", "pkill">>,
          kills |-> 0, killed |-> FALSE, launches |-> 0, launched |-> "none"]
    ELSE IF target # "none" /\ ~spawnOK
    THEN [calls |-> 1, success |-> FALSE,
          message |-> <<"Error restarting bot: ", "Popen">>,
          kills |-> 1, killed |-> pkillRes = "ok", launches |-> 0,
          launched |-> "none"]
    ELSE [calls |-> 1, success |-> TRUE,
          message |-> <<"Bot restarted successfully">>,
          kills |-> 1, killed |-> pkillRes = "ok",
          launches |-> IF target = "none" THEN 0 ELSE 1,
          launched |-> target]

(* variant: pkill is run with check=True, so a non-zero return raises too *)
restart_bot_CheckKill(runExists, files, pkillRes, spawnOK) ==
    LET target == LaunchTarget(runExists, files) IN
    IF pkillRes # "ok"
    THEN [calls |-> 1, success |-> FALSE,
          message |-> <<"Error restarting bot: ", "pkill">>,
          kills |-> IF pkillRes = "fail" THEN 1 ELSE 0, killed |-> FALSE,
          launches |-> 0, launched |-> "none"]
    ELSE IF target = "none"
    THEN [calls |-> 1, success |-> FALSE,
          message |-> <<"No bot script found">>,
          kills |-> 1, killed |-> TRUE, launches |-> 0,
          launched |-> "none"]
    ELSE IF ~spawnOK
    THEN [calls |-> 1, success |-> FALSE,
          message |-> <<"Error restarting bot: ", "Popen">>,
          kills |-> 1, killed |-> TRUE, launches |-> 0,
          launched |-> "none"]
    ELSE [calls |-> 1, success |-> TRUE,
          message |-> <<"Bot restarted successfully">>,
          kills |-> 1, killed |-> TRUE, launches |-> 1,
          launched |-> target]

(* restart_bot.  pkillRes: "ok" the processes were signalled, "fail" pkill
   returned non-zero, "raise" subprocess.run raised; spawnOK = FALSE is
   Popen raising. *)
restart_bot(runExists, files, pkillRes, spawnOK) ==
    LET target == LaunchTarget(runExists, files) IN
    IF pkillRes = "raise"
    THEN [calls |-> 1, success |-> FALSE,
          message |-> <<"Error restarting bot: ", "pkill">>,
          kills |-> 0, killed |-> FALSE, launches |-> 0, launched |-> "none"]
    ELSE IF target = "none"
    THEN [calls |-> 1, success |-> FALSE,
          message |-> <<"No bot script found">>,
          kills |-> 1, killed |-> pkillRes = "ok", launches |-> 0,
          launched |-> "none"]
    ELSE IF ~spawnOK
    THEN [calls |-> 1, success |-> FALSE,
          message |-> <<"Error restarting bot: ", "Popen">>,
          kills |-> 1, killed |-> pkillRes = "ok", launches |-> 0,
          launched |-> "none"]
    ELSE [calls |-> 1, success |-> TRUE,
          message |-> <<"Bot restarted successfully">>,
          kills |-> 1, killed |-> pkillRes = "ok", launches |-> 1,
          launched |-> target]

(* ---- main: the health decision ---- *)
(* variant: the activity is examined before the process probe *)
Decide_ActivityFirst(process_running, last_log, now) ==
    IF ~last_log.isNone
    THEN IF DtSubRaises(now, last_log)
         THEN [raised |-> TRUE, needs_restart |-> FALSE, reason |-> <<>>]
         ELSE IF DtSubMinutes(now, last_log) > MAX_IDLE_MINUTES
         THEN [raised |-> FALSE, needs_restart |-> TRUE,
               reason |-> <<"No logs for ",
                            ToString(DtSubMinutes(now, last_log)),
                            " minutes">>]
         ELSE [raised |-> FALSE, needs_restart |-> FALSE, reason |-> <<>>]
    ELSE IF ~process_running
    THEN [raised |-> FALSE, needs_restart |-> TRUE,
          reason |-> <<"Process not running">>]
    ELSE [raised |-> FALSE, needs_restart |-> TRUE,
          reason |-> <<"Cannot determine last log time">>]

(* variant: a running process without a readable log counts as healthy *)
Decide_AbsentHealthy(process_running, last_log, now) ==
    IF ~process_running
    THEN [raised |-> FALSE, needs_restart |-> TRUE,
          reason |-> <<"Process not running">>]
    ELSE IF ~last_log.isNone
    THEN IF DtSubRaises(now, last_log)
         THEN [raised |-> TRUE, needs_restart |-> FALSE, reason |-> <<>>]
         ELSE IF DtSubMinutes(now, last_log) > MAX_IDLE_MINUTES
         THEN [raised |-> FALSE, needs_restart |-> TRUE,
               reason |-> <<"No logs for ",
                            ToString(DtSubMinutes(now, last_log)),
                            " minutes">>]
         ELSE [raised |-> FALSE, needs_restart |-> FALSE, reason |-> <<>>]
    ELSE [raised |-> FALSE, needs_restart |-> FALSE, reason |-> <<>>]

(* variant: a running process whose status record says Running is not
   restarted for an unreadable log *)
Decide_TrustsRecord(process_running, last_log, now) ==
    IF ~process_running
    THEN [raised |-> FALSE, needs_restart |-> TRUE,
          reason |-> <<"Process not running">>]
    ELSE IF ~last_log.isNone
    THEN IF DtSubRaises(now, last_log)
         THEN [raised |-> TRUE, needs_restart |-> FALSE, reason |-> <<>>]
         ELSE IF DtSubMinutes(now, last_log) > MAX_IDLE_MINUTES
         THEN [raised |-> FALSE, needs_restart |-> TRUE,
               reason |-> <<"No logs for ",
                            ToString(DtSubMinutes(now, last_log)),
                            " minutes">>]
         ELSE [raised |-> FALSE, needs_restart |-> FALSE, reason |-> <<>>]
    ELSE IF /\ stateFile.kind = "json"
            /\ "status" \in DOMAIN stateFile.rec
            /\ stateFile.rec["status"] = "Running"
    THEN [raised |-> FALSE, needs_restart |-> FALSE, reason |-> <<>>]
    ELSE [raised |-> FALSE, needs_restart |-> TRUE,
          reason |-> <<"Cannot determine last log time">>]

(* lines 135-148: needs_restart and reason, or the exception of line 142 *)
Decide(process_running, last_log, now) ==
    IF ~process_running
    THEN [raised |-> FALSE, needs_restart |-> TRUE,
          reason |-> <<"Process not running">>]
    ELSE IF ~last_log.isNone
    THEN IF DtSubRaises(now, last_log)
         THEN [raised |-> TRUE, needs_restart |-> FALSE, reason |-> <<>>]
         ELSE IF DtSubMinutes(now, last_log) > MAX_IDLE_MINUTES
         THEN [raised |-> FALSE, needs_restart |-> TRUE,
               reason |-> <<"No logs for ",
                            ToString(DtSubMinutes(now, last_log)),
                            " minutes">>]
         ELSE [raised |-> FALSE, needs_restart |-> FALSE, reason |-> <<>>]
    ELSE [raised |-> FALSE, needs_restart |-> TRUE,
          reason |-> <<"Cannot determine last log time">>]

(* restart_bot was not called; result.get("restart_success", True) is True *)
NoRestart == [calls |-> 0, success |-> TRUE, message |-> <<>>, kills |-> 0,
              killed |-> FALSE, launches |-> 0, launched |-> "none"]

(* variant: a failed restart is tried a second time *)
Actuate_Retry(needs_restart, runExists, files, pkillRes, spawnOK) ==
    LET r == restart_bot(runExists, files, pkillRes, spawnOK) IN
    IF ~needs_restart THEN NoRestart
    ELSE IF r.success THEN r
    ELSE [r EXCEPT !.calls = 2, !.kills = 2 * r.kills]

(* lines 150-152 and 163: restart_bot is called once, when needs_restart *)
Actuate(needs_restart, runExists, files, pkillRes, spawnOK) ==
    IF needs_restart
    THEN restart_bot(runExists, files, pkillRes, spawnOK)
    ELSE NoRestart

(* sys.exit(0 if result.get("restart_success", True) else 1); an uncaught
   exception ends the interpreter with status 1 *)
ExitCode(raised, attempted, success) ==
    IF raised THEN 1
    ELSE IF attempted /\ ~success THEN 1
    ELSE 0

(* variant: a failed restart is recorded under another status name *)
RecordedStatus_Failed(needs_restart, success) ==
    IF needs_restart
    THEN IF success THEN "Running" ELSE "Failed"
    ELSE "Stopped - Script Missing"

(* lines 157-162 and 171: the arguments main passes to update_state *)
RecordedStatus(needs_restart, success) ==
    IF needs_restart
    THEN IF success THEN "Running" ELSE "Error"
    ELSE "Stopped - Script Missing"

(* variant: the outcome's message is recorded after a successful restart *)
RecordedMessage_Outcome(needs_restart, r, reason, now) ==
    IF needs_restart
    THEN r.message
    ELSE <<"Bot script not found at ", IsoFormat(now)>>

RecordedMessage(needs_restart, r, reason, now) ==
    IF needs_restart
    THEN IF r.success
         THEN <<"Restarted at ", IsoFormat(now), ": ">> \o reason
         ELSE r.message
    ELSE <<"Bot script not found at ", IsoFormat(now)>>

(* the record of the last invocation (what an observer of one run sees) *)
NoInvocation ==
    [ran |-> FALSE, raised |-> FALSE, probeRunning |-> FALSE,
     activity |-> NoneDt, now |-> 0, verdict |-> "none", reason |-> <<>>,
     outcome |-> NoRestart, wrote |-> FALSE,
     args |-> [status |-> "", message |-> <<>>],
     prevArgs |-> [status |-> "", message |-> <<>>],
     before |-> AbsentState, exitCode |-> 0]

(* main followed by the exit of the __main__ block.  childUp: whether the
   detached child shows up in the process table. *)
Main(tailOK, pgrepOK, pkillRes, spawnOK, childUp) ==
    LET now == NowUtc
        last_log == get_last_log_time(logFile, tailOK)
        process_running == is_process_running(procRunning, pgrepOK)
        d == Decide(process_running, last_log, now)
        r == Actuate(d.needs_restart, runScript, dirFiles, pkillRes, spawnOK)
        newFile ==
            IF d.raised THEN stateFile
            ELSE update_state(stateFile, stateWritable,
                     RecordedStatus(d.needs_restart, r.success),
                     RecordedMessage(d.needs_restart, r, d.reason, now), now)
        raised == d.raised \/ UpdateRaises(stateFile, stateWritable)
    IN /\ ~inv.ran
       /\ stateFile' = newFile
       /\ procRunning' = IF r.launches > 0 THEN childUp
                         ELSE IF r.killed THEN FALSE
                         ELSE procRunning
       /\ inv' = [ran |-> TRUE, raised |-> raised,
                  probeRunning |-> process_running, activity |-> last_log,
                  now |-> clock,
                  verdict |-> IF d.raised THEN "none"
                              ELSE IF d.needs_restart THEN "unhealthy"
                              ELSE "healthy",
                  reason |-> d.reason,
                  outcome |-> r,
                  wrote |-> ~d.raised /\ UpdateWrites(stateFile, stateWritable),
                  args |-> IF d.raised THEN NoInvocation.args
                           ELSE [status |->
                                   RecordedStatus(d.needs_restart, r.success),
                                 message |->
                                   RecordedMessage(d.needs_restart, r,
                                                   d.reason, now)],
                  prevArgs |-> NoInvocation.prevArgs,
                  before |-> stateFile,
                  exitCode |-> ExitCode(raised, d.needs_restart, r.success)]
       /\ UNCHANGED <<clock, ticks, logFile, runScript, dirFiles,
                      stateWritable>>

(* ---- the environment ---- *)
(* the external scheduler: the exited invocation is over, the next one is due *)
NextInvocation ==
    /\ inv.ran
    /\ inv' = NoInvocation
    /\ UNCHANGED <<clock, ticks, procRunning, logFile, runScript, dirFiles,
                   stateFile, stateWritable>>

(* the lengths of time, in minutes, that pass between two events: exactly
   the idle limit, and one minute more *)
Steps == {MAX_IDLE_MINUTES, MAX_IDLE_MINUTES + 1}

(* time passes *)
Tick(d) ==
    /\ ~inv.ran
    /\ ticks < MaxTicks
    /\ ticks' = ticks + 1
    /\ clock' = clock + d
    /\ UNCHANGED <<procRunning, logFile, runScript, dirFiles, stateFile,
                   stateWritable, inv>>

(* the running bot appends a line stamped with the local time (UTC+8) *)
BotLogs ==
    /\ ~inv.ran
    /\ procRunning
    /\ logFile' = LogLine(TRUE, TRUE, clock + UTC_OFFSET_MINUTES)
    /\ UNCHANGED <<clock, ticks, procRunning, runScript, dirFiles, stateFile,
                   stateWritable, inv>>

(* a last line that is not "<timestamp> - <text>" ends up in the log *)
BadLogLine(hasDelim) ==
    /\ ~inv.ran
    /\ logFile' = LogLine(hasDelim, FALSE, 0)
    /\ UNCHANGED <<clock, ticks, procRunning, runScript, dirFiles, stateFile,
                   stateWritable, inv>>

(* the bot process dies *)
ProcExit ==
    /\ ~inv.ran
    /\ procRunning
    /\ procRunning' = FALSE
    /\ UNCHANGED <<clock, ticks, logFile, runScript, dirFiles, stateFile,
                   stateWritable, inv>>

(* state files found at the first invocation *)
InitialRecords ==
    { [k \in {"foo"} |-> "bar"],
      [k \in {"status", "last_check", "last_message", "foo"} |->
          IF k = "status" THEN "Running"
          ELSE IF k = "last_check" THEN "old"
          ELSE IF k = "last_message" THEN <<"old message">>
          ELSE "bar"] }

InitialStates ==
    {AbsentState, CorruptState} \cup {JsonState(r) : r \in InitialRecords}

Init ==
    /\ clock = 0
    /\ ticks = 0
    /\ procRunning \in BOOLEAN
    /\ logFile \in {NoLogFile, EmptyLog}
    /\ runScript \in BOOLEAN
    /\ dirFiles \in SUBSET FileNames
    /\ stateFile \in InitialStates
    /\ stateWritable \in BOOLEAN
    /\ inv = NoInvocation

Next ==
    \/ \E tailOK \in BOOLEAN, pgrepOK \in BOOLEAN,
          pkillRes \in {"ok", "fail", "raise"},
          spawnOK \in BOOLEAN, childUp \in BOOLEAN :
          Main(tailOK, pgrepOK, pkillRes, spawnOK, childUp)
    \/ NextInvocation
    \/ \E d \in Steps : Tick(d)
    \/ BotLogs
    \/ \E hasDelim \in BOOLEAN : BadLogLine(hasDelim)
    \/ ProcExit

Spec == Init /\ [][Next]_vars

TypeOK ==
    /\ ticks \in 0..MaxTicks
    /\ clock \in 0..(MaxTicks * (MAX_IDLE_MINUTES + 1))
    /\ procRunning \in BOOLEAN
    /\ inv.exitCode \in {0, 1}

(* ---- update_state on its own, for any arguments ---- *)
StatusArgs == {"Running", "Error", "Stopped - Script Missing"}
MessageArgs == {<<>>, <<"No bot script found">>, <<"Restarted at ", "0">>}

(* one call update_state(status, message); inv keeps the file found before
   the call, the arguments, the arguments of the call before it and whether
   the call reached its write *)
UpdateStateCall(status, message) ==
    /\ ~inv.ran
    /\ stateFile' = update_state(stateFile, stateWritable, status, message,
                                 NowUtc)
    /\ inv' = [NoInvocation EXCEPT
                 !.now = clock,
                 !.wrote = UpdateWrites(stateFile, stateWritable),
                 !.args = [status |-> status, message |-> message],
                 !.prevArgs = inv.args,
                 !.before = stateFile]
    /\ UNCHANGED <<clock, ticks, procRunning, logFile, runScript, dirFiles,
                   stateWritable>>

NextUpdate ==
    \/ \E status \in StatusArgs, message \in MessageArgs :
          UpdateStateCall(status, message)
    \/ \E d \in Steps : Tick(d)

(* update_state reads nothing but the state file and the clock: the rest of
   the environment is held at one value *)
InitUpdate ==
    /\ clock = 0
    /\ ticks = 0
    /\ procRunning = FALSE
    /\ logFile = NoLogFile
    /\ runScript = FALSE
    /\ dirFiles = {}
    /\ stateFile \in InitialStates
    /\ stateWritable \in BOOLEAN
    /\ inv = NoInvocation

SpecUpdate == InitUpdate /\ [][NextUpdate]_vars

(* ---- the claims ---- *)
KnownFields == {"status", "last_check", "last_message"}

(* minutes between the invocation's now and the activity it read *)
Elapsed == inv.now - inv.activity.t

HasStatus(file, status) ==
    /\ file.kind = "json"
    /\ "status" \in DOMAIN file.rec
    /\ file.rec["status"] = status

HasMessage(file, message) ==
    /\ file.kind = "json"
    /\ "last_message" \in DOMAIN file.rec
    /\ file.rec["last_message"] = message

Contains(message, part) == \E i \in 1..Len(message) : message[i] = part

(* C1: whenever the process probe reports not running, the decision is
   unhealthy with reason "Process not running", whatever the activity probe
   returned. *)
C1_NotRunningUnhealthy ==
    (inv.ran /\ ~inv.probeRunning) =>
        /\ inv.verdict = "unhealthy"
        /\ inv.reason = <<"Process not running">>

(* the process is not running while the log carries a stale, parseable line *)
C1_Witness ==
    /\ inv.ran /\ ~inv.probeRunning
    /\ ~inv.activity.isNone /\ Elapsed > MAX_IDLE_MINUTES
    /\ inv.verdict = "unhealthy"

(* C2: with the process running and a last activity time now - d, the
   decision is unhealthy iff d > maxIdle; d = maxIdle is healthy and causes
   no restart. *)
C2_StrictIdleThreshold ==
    (inv.ran /\ inv.probeRunning /\ ~inv.activity.isNone) =>
        /\ (inv.verdict = "unhealthy") <=> (Elapsed > MAX_IDLE_MINUTES)
        /\ (Elapsed <= MAX_IDLE_MINUTES) =>
              (inv.verdict = "healthy" /\ inv.outcome.calls = 0)

(* C3 as stated: process running and activity absent give unhealthy with
   reason "cannot determine last activity", and a restart is attempted. *)
C3_AbsentActivity_Original ==
    (inv.ran /\ inv.probeRunning /\ inv.activity.isNone) =>
        /\ inv.verdict = "unhealthy"
        /\ inv.reason = <<"cannot determine last activity">>
        /\ inv.outcome.calls = 1

(* C3 amended: process running and activity absent give unhealthy with
   reason "Cannot determine last log time", and a restart is attempted. *)
C3_AbsentActivity ==
    (inv.ran /\ inv.probeRunning /\ inv.activity.isNone) =>
        /\ inv.verdict = "unhealthy"
        /\ inv.reason = <<"Cannot determine last log time">>
        /\ inv.outcome.calls = 1

(* a running process whose log has a last line without a timestamp *)
C3_Witness ==
    /\ inv.ran /\ inv.probeRunning /\ inv.activity.isNone
    /\ logFile.exists /\ ~logFile.empty
    /\ inv.outcome.calls = 1

(* C4: the exit code is 0 exactly when the verdict was healthy or the
   restart reported success, and non-zero exactly when a restart was
   attempted and reported failure. *)
C4_ExitCode ==
    inv.ran =>
        /\ (inv.exitCode = 0) <=>
              (inv.verdict = "healthy"
               \/ (inv.outcome.calls > 0 /\ inv.outcome.success))
        /\ (inv.exitCode # 0) <=>
              (inv.outcome.calls > 0 /\ ~inv.outcome.success)

(* C5: the restart actuator runs exactly once when the verdict is unhealthy
   and not at all otherwise; no invocation kills or launches more than
   once. *)
C5_OneRestart ==
    inv.ran =>
        /\ (inv.verdict = "unhealthy") => (inv.outcome.calls = 1)
        /\ (inv.verdict # "unhealthy") =>
              (inv.outcome.calls = 0 /\ inv.outcome.kills = 0
               /\ inv.outcome.launches = 0)
        /\ inv.outcome.kills <= 1
        /\ inv.outcome.launches <= 1

(* an unhealthy verdict whose single restart failed after the kill *)
C5_Witness ==
    /\ inv.ran /\ inv.verdict = "unhealthy"
    /\ inv.outcome.calls = 1 /\ inv.outcome.kills = 1
    /\ ~inv.outcome.success

(* C6: the status of the persisted record is always one of Running, Error
   or Stopped. *)
C6_StatusEnum ==
    (stateFile.kind = "json" /\ "status" \in DOMAIN stateFile.rec) =>
        stateFile.rec["status"] \in {"Running", "Error", "Stopped"}

(* an invocation has just written status Error over a record without one *)
C6_Witness ==
    /\ inv.ran /\ inv.wrote
    /\ "status" \notin DOMAIN inv.before.rec
    /\ HasStatus(stateFile, "Error")

(* C7: an invocation that is healthy (it reached a healthy verdict, or
   its process is running and its last activity is present and within
   maxIdle) never records a stopped / script-missing status or message. *)
HealthyInvocation ==
    /\ inv.ran
    /\ \/ inv.verdict = "healthy"
       \/ /\ inv.probeRunning
          /\ ~inv.activity.isNone
          /\ Elapsed <= MAX_IDLE_MINUTES

C8_RestartedRecord ==
    (inv.ran /\ inv.outcome.calls = 1 /\ inv.outcome.success /\ inv.wrote) =>
        /\ HasStatus(stateFile, "Running")
        /\ "last_message" \in DOMAIN stateFile.rec
        /\ Contains(stateFile.rec["last_message"], "Restarted at ")

(* a successful restart for absent activity, written over an older message *)
C8_Witness ==
    /\ inv.ran /\ inv.outcome.calls = 1 /\ inv.outcome.success /\ inv.wrote
    /\ inv.reason = <<"Cannot determine last log time">>
    /\ HasMessage(inv.before, <<"old message">>)
    /\ HasStatus(stateFile, "Running")

(* no run.sh and no candidate script in the bot directory *)
NoLaunchTarget == LaunchTarget(runScript, dirFiles) = "none"

(* C9 as stated: with no launch target, a restart fails with message "no
   launch target found", the record gets status Error with that message,
   and the exit code is non-zero. *)
C9_NoTarget_Original ==
    (inv.ran /\ inv.outcome.calls = 1 /\ NoLaunchTarget) =>
        /\ ~inv.outcome.success
        /\ inv.outcome.message = <<"no launch target found">>
        /\ HasStatus(stateFile, "Error")
        /\ HasMessage(stateFile, inv.outcome.message)
        /\ inv.exitCode # 0

(* C9 amended: with no launch target, a restart fails and the exit code is
   non-zero; the message is "No bot script found" when pkill could be run
   and "Error restarting bot: ..." when it could not; the record, when
   update_state writes it, has status Error with that message. *)
C9_NoTarget ==
    (inv.ran /\ inv.outcome.calls = 1 /\ NoLaunchTarget) =>
        /\ ~inv.outcome.success
        /\ inv.exitCode # 0
        /\ (inv.outcome.kills = 1) =>
              (inv.outcome.message = <<"No bot script found">>)
        /\ (inv.outcome.kills = 0) =>
              Contains(inv.outcome.message, "Error restarting bot: ")
        /\ inv.wrote =>
              (HasStatus(stateFile, "Error")
               /\ HasMessage(stateFile, inv.outcome.message))

(* a restart without any launch target, recorded in the state file *)
C9_Witness ==
    /\ inv.ran /\ inv.outcome.calls = 1 /\ NoLaunchTarget
    /\ inv.outcome.kills = 1 /\ inv.wrote
    /\ HasMessage(stateFile, <<"No bot script found">>)
    /\ inv.exitCode = 1

(* C10: update_state leaves every field other than status, last_check and
   last_message of a readable record present and unchanged, for any
   arguments. *)
C10_UnknownFieldsKept ==
    [][(stateFile.kind = "json") =>
          \A k \in (DOMAIN stateFile.rec) \ KnownFields :
              /\ stateFile'.kind = "json"
              /\ k \in DOMAIN stateFile'.rec
              /\ stateFile'.rec[k] = stateFile.rec[k]]_vars

(* a call has rewritten a record that carried the unknown field foo *)
C10_Witness ==
    /\ ~inv.ran /\ inv.wrote
    /\ inv.before.kind = "json" /\ "foo" \in DOMAIN inv.before.rec
    /\ HasStatus(stateFile, inv.args.status)
    /\ stateFile # inv.before
    /\ "foo" \in DOMAIN stateFile.rec /\ stateFile.rec["foo"] = "bar"

(* a call of update_state has been made (by main or on its own) *)
CallMade == inv.args.status # ""

(* the last_message of both files is the same, or both have none *)
SameMessage(f, g) ==
    IF f.kind = "json" /\ "last_message" \in DOMAIN f.rec
    THEN HasMessage(g, f.rec["last_message"])
    ELSE ~(g.kind = "json" /\ "last_message" \in DOMAIN g.rec)

SameStatus(f, g) ==
    IF f.kind = "json" /\ "status" \in DOMAIN f.rec
    THEN HasStatus(g, f.rec["status"])
    ELSE ~(g.kind = "json" /\ "status" \in DOMAIN g.rec)

HasLastCheck(file, t) ==
    /\ file.kind = "json"
    /\ "last_check" \in DOMAIN file.rec
    /\ file.rec["last_check"] = ToString(t)

(* C11: update_state with an empty message keeps the existing last_message,
   with a non-empty message replaces it by that message, and the call that
   writes the record sets status and last_check in both cases. *)
C11_MessageOnlyIfNonEmpty ==
    CallMade =>
        /\ (Len(inv.args.message) = 0) => SameMessage(inv.before, stateFile)
        /\ (Len(inv.args.message) > 0 /\ inv.wrote) =>
              HasMessage(stateFile, inv.args.message)
        /\ inv.wrote =>
              (HasStatus(stateFile, inv.args.status)
               /\ HasLastCheck(stateFile, inv.now))

(* an empty message written over a record that carried an older message *)
C11_Witness ==
    /\ CallMade /\ inv.wrote /\ Len(inv.args.message) = 0
    /\ HasMessage(inv.before, <<"old message">>)
    /\ HasMessage(stateFile, <<"old message">>)
    /\ HasStatus(stateFile, "Error")
    /\ ~HasStatus(inv.before, "Error")

(* the last two calls of update_state had the same arguments *)
RepeatedCall == CallMade /\ inv.prevArgs = inv.args

(* C12: a second call of update_state with the same arguments leaves status
   and last_message as the first call left them, and last_check is the
   time of the second call. *)
C12_Idempotent ==
    RepeatedCall =>
        /\ SameStatus(inv.before, stateFile)
        /\ SameMessage(inv.before, stateFile)
        /\ inv.wrote => HasLastCheck(stateFile, inv.now)

(* the same non-empty message written twice, the second time later *)
C12_Witness ==
    /\ RepeatedCall /\ inv.wrote /\ Len(inv.args.message) > 0
    /\ HasStatus(inv.before, inv.args.status)
    /\ HasLastCheck(inv.before, 0)
    /\ inv.now > 0
    /\ HasLastCheck(stateFile, inv.now)

(* C13: with the persisted record absent or corrupt, update_state treats it
   as empty and still writes the new status and last_check (and
   last_message when the message is non-empty). *)
C13_CorruptTreatedAsEmpty ==
    (CallMade /\ inv.before.kind \in {"absent", "corrupt"} /\ stateWritable) =>
        /\ HasStatus(stateFile, inv.args.status)
        /\ HasLastCheck(stateFile, inv.now)
        /\ (Len(inv.args.message) > 0) =>
              HasMessage(stateFile, inv.args.message)
        /\ DOMAIN stateFile.rec \subseteq KnownFields

(* the probes alone call for a restart: no process, or no readable activity *)
ProbesUnhealthy == ~inv.probeRunning \/ inv.activity.isNone

(* main called update_state and the call could not load or write the file *)
PersistFailed == inv.ran /\ CallMade /\ ~inv.wrote

(* C14: verdict, restart attempt and exit code of an invocation are fixed
   by its probe results and its restart outcome, whether the status file
   works or fails: two invocations that agree on those agree on all three. *)
C14_PersistenceNeverDecides ==
    inv.ran =>
        /\ ProbesUnhealthy =>
              /\ inv.verdict = "unhealthy"
              /\ inv.outcome.calls = 1
              /\ inv.exitCode = (IF inv.outcome.success THEN 0 ELSE 1)
        /\ ~ProbesUnhealthy =>
              /\ inv.verdict = "none"
              /\ inv.outcome.calls = 0
              /\ inv.exitCode = 1

(* a successful restart exits 0 although the status file is corrupt *)
C14_Witness ==
    /\ PersistFailed /\ inv.before.kind = "corrupt"
    /\ inv.outcome.success /\ inv.exitCode = 0
    /\ stateFile = inv.before

(* the last line has the " - " delimiter and a timestamp in the fixed format *)
LineParses ==
    /\ logFile.exists /\ ~logFile.empty
    /\ logFile.hasDelim /\ logFile.tsParses

(* C15: get_last_log_time returns absent when the log does not exist, is
   empty, or has a last line without the delimiter or with an unparseable
   timestamp, and main goes on to its decision; it returns a timestamp only
   for a last line with the delimiter and a parseable timestamp, and that
   timestamp is the line's local time less eight hours, without tzinfo. *)
C15_ActivityProbeAbsent ==
    inv.ran =>
        /\ ~LineParses =>
              (inv.activity.isNone /\ inv.verdict = "unhealthy")
        /\ ~inv.activity.isNone =>
              /\ LineParses
              /\ inv.activity.t = logFile.localTime - UTC_OFFSET_MINUTES
              /\ ~inv.activity.aware

(* a last line with the delimiter whose timestamp does not parse *)
C15_Witness ==
    /\ inv.ran /\ logFile.exists /\ ~logFile.empty
    /\ logFile.hasDelim /\ ~logFile.tsParses
    /\ inv.activity.isNone /\ inv.probeRunning

(* file f matches the first pattern of the list that has a match at all *)
IsFirstMatch(f, files) ==
    \E i \in 1..Len(Patterns) :
        /\ f \in Glob(Patterns[i], files)
        /\ \A j \in 1..(i - 1) : Glob(Patterns[j], files) = {}

(* C16: a restart launches at most one process; it is run.sh when run.sh
   exists, and otherwise a match of the first pattern, in the order
   trading_bot.py, bot.py, main.py, hyperliquid*.py, that has a match. *)
C16_FirstMatchWins ==
    (inv.ran /\ inv.outcome.calls = 1) =>
        /\ inv.outcome.launches <= 1
        /\ (inv.outcome.launches = 0) => (inv.outcome.launched = "none")
        /\ (inv.outcome.launches = 1 /\ runScript) =>
              (inv.outcome.launched = "run.sh")
        /\ (inv.outcome.launches = 1 /\ ~runScript) =>
              IsFirstMatch(inv.outcome.launched, dirFiles)

(* main.py and a hyperliquid*.py file are both there, without run.sh *)
C16_Witness ==
    /\ inv.ran /\ inv.outcome.launches = 1 /\ ~runScript
    /\ dirFiles = {"main.py", "hyperliquid_main.py"}
    /\ inv.outcome.launched = "main.py"

(* the failures of the launch step itself: no target, or Popen raising *)
LaunchFailureMessages ==
    {<<"No bot script found">>, <<"Error restarting bot: ", "Popen">>}

PkillErrorMessage == <<"Error restarting bot: ", "pkill">>

(* C17 as stated: a launch is preceded by the kill step, and a failed kill
   step, a kill command that could not be run included, neither prevents
   the launch from being attempted nor makes the outcome a failure. *)
C17_KillFailureIgnored_Original ==
    (inv.ran /\ inv.outcome.calls = 1) =>
        /\ (inv.outcome.launches = 1) => (inv.outcome.kills = 1)
        /\ (~inv.outcome.killed /\ ~NoLaunchTarget) =>
              \/ inv.outcome.launches = 1
              \/ inv.outcome.message = <<"Error restarting bot: ", "Popen">>
        /\ (~inv.outcome.killed /\ ~inv.outcome.success) =>
              (inv.outcome.message \in LaunchFailureMessages)

(* C17 amended: a launch is preceded by the kill step; a kill command that
   ran and returned non-zero neither prevents the launch from being
   attempted nor makes the outcome a failure; a kill command that could
   not be run ends the restart as a failure "Error restarting bot: ..."
   with no launch attempted. *)
C17_KillFailureIgnored ==
    (inv.ran /\ inv.outcome.calls = 1) =>
        /\ (inv.outcome.launches = 1) => (inv.outcome.kills = 1)
        /\ (inv.outcome.kills = 1 /\ ~inv.outcome.killed /\ ~NoLaunchTarget) =>
              \/ inv.outcome.launches = 1
              \/ inv.outcome.message = <<"Error restarting bot: ", "Popen">>
        /\ (inv.outcome.kills = 1 /\ ~inv.outcome.success) =>
              (inv.outcome.message \in LaunchFailureMessages)
        /\ (inv.outcome.kills = 0) =>
              /\ ~inv.outcome.success
              /\ inv.outcome.launches = 0
              /\ inv.outcome.message = PkillErrorMessage

(* pkill returned non-zero with the process still there, and the launch
   went ahead and succeeded *)
C17_Witness ==
    /\ inv.ran /\ inv.outcome.calls = 1
    /\ inv.outcome.kills = 1 /\ ~inv.outcome.killed
    /\ inv.probeRunning
    /\ inv.outcome.launches = 1 /\ inv.outcome.success

(* the activity main read is absent, or older than the idle limit *)
ActivityStaleOrAbsent ==
    inv.activity.isNone \/ Elapsed > MAX_IDLE_MINUTES

(* C18: when a running process is judged unhealthy for stale or absent
   activity and no launch target exists, the invocation ends with the
   restart's kill step done (the process gone once pkill has signalled it),
   nothing launched, and outcome failure. *)
C18_KilledNothingLaunched ==
    (inv.ran /\ inv.probeRunning /\ ActivityStaleOrAbsent /\ NoLaunchTarget) =>
        /\ inv.outcome.calls = 1
        /\ inv.outcome.killed => ~procRunning
        /\ inv.outcome.launches = 0
        /\ ~inv.outcome.success
        /\ inv.exitCode # 0

(* the record says Running and its message is that of a successful restart
   for the given activity reason *)
RecordsRestartFor(file, reasonPart) ==
    /\ HasStatus(file, "Running")
    /\ "last_message" \in DOMAIN file.rec
    /\ Contains(file.rec["last_message"], "Restarted at ")
    /\ Contains(file.rec["last_message"], reasonPart)

(* C19: an invocation never writes the activity log and does not consult
   the status record: when the record says Running after a successful
   restart for absent (or stale) activity and the log still reads absent
   (or stale), the next invocation again judges unhealthy and restarts. *)
C19_RestartsAgain ==
    [][(~inv.ran /\ inv'.ran) =>
          /\ logFile' = logFile
          /\ (/\ RecordsRestartFor(stateFile, "Cannot determine last log time")
              /\ inv'.activity.isNone) =>
                (inv'.verdict = "unhealthy" /\ inv'.outcome.calls = 1)
          /\ (/\ RecordsRestartFor(stateFile, "No logs for ")
              /\ ~inv'.activity.isNone
              /\ inv'.now - inv'.activity.t > MAX_IDLE_MINUTES) =>
                (inv'.verdict = "unhealthy" /\ inv'.outcome.calls = 1)]_vars

(* the relaunched child was running, the log still unreadable: it is killed
   and launched once more *)
C19_Witness ==
    /\ inv.ran
    /\ RecordsRestartFor(inv.before, "Cannot determine last log time")
    /\ inv.probeRunning /\ inv.activity.isNone
    /\ inv.verdict = "unhealthy"
    /\ inv.outcome.killed /\ inv.outcome.launches = 1 /\ inv.outcome.success

====
